---- MODULE Spec2Model ----
(***************************************************************************)
(* The two trigger tasks of lightflow_filesystem:                          *)
(*   NotifyTriggerTask.run   (directory mode, notify_trigger_task.py)      *)
(*   NewLineTriggerTask.run  (line mode, newline_trigger_task.py)          *)
(* One watch session per behaviour; `mode` says which task runs.           *)
(***************************************************************************)
EXTENDS Integers, Sequences, FiniteSets, TLC

\* ------------------------------------------------------------------ bounds
MaxAggregate == 2      \* aggregate ranges over 1..MaxAggregate
MaxRate == 2           \* stop_polling_rate ranges over 1..MaxRate
MaxObs == 4            \* loop iterations of one directory session
MaxFile == 4           \* characters the watched file can grow to

\* ------------------------------------------- inotify.constants (bit masks)
IN_MODIFY == 2
IN_CLOSE_WRITE == 8
IN_CLOSE_NOWRITE == 16
IN_MOVED_FROM == 64
IN_MOVED_TO == 128
IN_CREATE == 256
IN_DELETE == 512
IN_ISDIR == 1073741824
IN_MOVE == IN_MOVED_FROM + IN_MOVED_TO

VARIABLES
    mode,                   \* "dir" (NotifyTriggerTask) or "line" (NewLineTriggerTask)
    params,                 \* the evaluated task parameters
    mask,                   \* directory mode: the notification mask
    pc,                     \* position of run()
    watch,                  \* the watch resource: "none", "open", "released"
    files,                  \* directory mode: the list `files`
    lines,                  \* line mode: the list `lines`
    polling_event_number,   \* the polling counter
    dispatched,             \* the run_dag calls that returned, in call order
    stopped,                \* what signal.is_stopped() answers (environment)
    queries,                \* number of signal.is_stopped() calls made
    nObs,                   \* loop iterations started (events/lines yielded)
    sinceStop,              \* history: iterations started while stopped was true
    accepted,               \* history: items the filter of section 4.2 lets through
    file,                   \* line mode: the characters of the watched file
    pos,                    \* line mode: read offset of the live file handle
    num_read_lines,         \* line mode: the local num_read_lines
    skipped,                \* line mode: readline() calls done by the skip loop
    torn,                   \* history: the file was seen ending in an unterminated line
    errors,                 \* number of run_dag calls that raised
    seek_offset,            \* line mode: the offset file.seek(0, 2) moved to
    dir_entries,            \* directory mode: the files of the watched directory
    writers,                \* directory mode: files created and not yet closed
    inotify_queue           \* directory mode: events the kernel has queued

vars == <<mode, params, mask, pc, watch, files, lines, polling_event_number, dispatched,
          stopped, queries, nObs, sinceStop, accepted, file, pos, num_read_lines,
          skipped, torn, errors, seek_offset, dir_entries, writers, inotify_queue>>

fsVars == <<dir_entries, writers, inotify_queue>>

lineVars == <<lines, file, pos, num_read_lines, skipped, torn, seek_offset>>

\* ----------------------------------------------------------------- helpers
RECURSIVE BitAnd(_, _)
BitAnd(a, b) ==
    IF a = 0 \/ b = 0 THEN 0
    ELSE (a % 2) * (b % 2) + 2 * BitAnd(a \div 2, b \div 2)

RECURSIVE BitOr(_, _)
BitOr(a, b) ==
    IF a = 0 THEN b
    ELSE IF b = 0 THEN a
    ELSE (IF a % 2 = 1 \/ b % 2 = 1 THEN 1 ELSE 0) + 2 * BitOr(a \div 2, b \div 2)

Contains(s, x) == \E i \in 1..Len(s) : s[i] = x

RECURSIVE Flatten(_)
Flatten(batches) ==
    IF batches = <<>> THEN <<>>
    ELSE Head(batches).items \o Flatten(Tail(batches))

\* ------------------------------------------------- directory mode: inputs
Paths == {"A", "B"}
Cats == {"create", "close_write", "close_nowrite", "delete", "moved_from",
         "moved_to", "modify"}

\* What event_gen() yields: an event, or None after a poll timeout.
None == [cat |-> "none", isdir |-> FALSE, path |-> "-"]
FileEvents == [cat : Cats, isdir : {FALSE}, path : Paths]
\* "directory create/delete events": a subdirectory appears or goes away
DirEvents == [cat : {"create", "delete"}, isdir : {TRUE}, path : {"A"}]
Events == FileEvents \cup DirEvents

CatBit(cat) ==
    CASE cat = "create" -> IN_CREATE
      [] cat = "close_write" -> IN_CLOSE_WRITE
      [] cat = "close_nowrite" -> IN_CLOSE_NOWRITE
      [] cat = "delete" -> IN_DELETE
      [] cat = "moved_from" -> IN_MOVED_FROM
      [] cat = "moved_to" -> IN_MOVED_TO
      [] cat = "modify" -> IN_MODIFY

\* header.mask of an event
HeaderMask(e) == CatBit(e.cat) + (IF e.isdir THEN IN_ISDIR ELSE 0)

\* What os.walk can list: the existing files, each once, in any order.
Listings == {<<>>, <<"A">>, <<"B", "A">>}

\* on_file_create, on_file_close, on_file_delete, on_file_move: none, each alone
\* (on_file_close alone is the default), a pair, and all four.
Flags ==
    {<<FALSE, FALSE, FALSE, FALSE>>, <<TRUE, FALSE, FALSE, FALSE>>,
     <<FALSE, TRUE, FALSE, FALSE>>, <<FALSE, FALSE, TRUE, FALSE>>,
     <<FALSE, FALSE, FALSE, TRUE>>, <<TRUE, FALSE, FALSE, TRUE>>,
     <<TRUE, TRUE, TRUE, TRUE>>}

DirParams ==
    {[path_abs |-> a, recursive |-> r, aggregate |-> k, skip_duplicate |-> sd,
      use_existing_files |-> ue, stop_polling_rate |-> spr,
      on_file_create |-> f[1], on_file_close |-> f[2],
      on_file_delete |-> f[3], on_file_move |-> f[4]] :
        a \in BOOLEAN, r \in BOOLEAN, k \in 1..MaxAggregate, sd \in BOOLEAN,
        ue \in BOOLEAN, spr \in 1..MaxRate, f \in Flags}

\* ------------------------------------------------ directory mode: the code
\* notify_trigger_task.py 109-114
Mask ==
    BitOr(BitOr(IF params.on_file_create THEN IN_CREATE ELSE 0,
                IF params.on_file_close THEN IN_CLOSE_WRITE ELSE 0),
          BitOr(IF params.on_file_delete THEN IN_DELETE ELSE 0,
                IF params.on_file_move THEN IN_MOVE ELSE 0))

MatchesMaskDirs(e) == BitAnd(HeaderMask(e), mask) # 0

\* notify_trigger_task.py 151-152
MatchesMask(e) ==
    /\ BitAnd(HeaderMask(e), IN_ISDIR) = 0
    /\ BitAnd(HeaderMask(e), mask) # 0

AppendEventDedupLast(fs, e) ==
    IF e # None /\ MatchesMask(e)
    THEN IF ~params.skip_duplicate
            \/ (params.skip_duplicate /\ (fs = <<>> \/ fs[Len(fs)] # e.path))
         THEN Append(fs, e.path)
         ELSE fs
    ELSE fs

AppendEventGlobalDedup(fs, e) ==
    IF e # None /\ MatchesMask(e)
    THEN IF ~params.skip_duplicate
            \/ (params.skip_duplicate
                  /\ ~Contains(Flatten(dispatched) \o fs, e.path))
         THEN Append(fs, e.path)
         ELSE fs
    ELSE fs

AppendEventNoDedup(fs, e) ==
    IF e # None /\ MatchesMask(e) THEN Append(fs, e.path) ELSE fs

\* notify_trigger_task.py 148-157: the list `files` after the event
AppendEvent(fs, e) ==
    IF e # None /\ MatchesMask(e)
    THEN IF ~params.skip_duplicate \/ (params.skip_duplicate /\ ~Contains(fs, e.path))
         THEN Append(fs, e.path)
         ELSE fs
    ELSE fs

DirThresholdDouble(fs) == Len(fs) >= 2 * params.aggregate

DirThresholdStrict(fs) == Len(fs) > params.aggregate

\* notify_trigger_task.py 160
DirThreshold(fs) == Len(fs) >= params.aggregate

\* notify_trigger_task.py 161: the batch handed to run_dag
DirBatch(fs) == fs

DirAfterDispatchKeep(fs) == fs

DirAfterDispatchPrefix(fs) == SubSeq(fs, params.aggregate + 1, Len(fs))

\* notify_trigger_task.py 163: the list after `del files[:]`
DirAfterDispatch(fs) == <<>>

PollDueAt(n) == n >= params.stop_polling_rate

\* notify_trigger_task.py 142, newline_trigger_task.py 131
PollDue(n) == n > params.stop_polling_rate

StopSeenIgnored(due) == FALSE

\* notify_trigger_task.py 142-145, newline_trigger_task.py 131-134: the stop
\* predicate is queried and answers true: break
StopSeen(due) == due /\ stopped

PathOkAlways == TRUE

\* notify_trigger_task.py 116, newline_trigger_task.py 91
PathOk == params.path_abs

AfterRaiseRetry(at) == at

\* notify_trigger_task.py 162, newline_trigger_task.py 105, 141: run_dag raises
\* at position `at` of run(); nothing catches it, run() ends with the error
AfterRaise(at) == "failed"

\* The filter of section 4.2, by category: the history `accepted` records it.
Wanted(e) ==
    /\ e # None
    /\ ~e.isdir
    /\ \/ e.cat = "create" /\ params.on_file_create
       \/ e.cat = "close_write" /\ params.on_file_close
       \/ e.cat = "delete" /\ params.on_file_delete
       \/ e.cat \in {"moved_from", "moved_to"} /\ params.on_file_move

InitDir ==
    /\ mode = "dir"
    /\ params \in DirParams
    /\ mask = 0
    /\ pc = "start"
    /\ watch = "none"
    /\ files = <<>>
    /\ lines = <<>>
    /\ polling_event_number = 0
    /\ dispatched = <<>>
    /\ stopped = FALSE
    /\ queries = 0
    /\ nObs = 0
    /\ sinceStop = 0
    /\ accepted = <<>>
    /\ file = <<>>
    /\ pos = 0
    /\ num_read_lines = 0
    /\ skipped = 0
    /\ torn = FALSE
    /\ errors = 0
    /\ seek_offset = 0
    /\ dir_entries = <<>>
    /\ writers = {}
    /\ inotify_queue = <<>>

AddWatchLater == "none"

\* notify_trigger_task.py 120-124: the watch exists from here on
AddWatch == "open"

\* notify_trigger_task.py 107-124: the mask is built, the path checked, the
\* watch registered
DirStart ==
    /\ mode = "dir" /\ pc = "start"
    /\ mask' = Mask
    /\ IF ~PathOk
       THEN pc' = "patherror" /\ watch' = watch
       ELSE pc' = "registered" /\ watch' = AddWatch
    /\ UNCHANGED fsVars
    /\ UNCHANGED <<mode, params, files, polling_event_number, dispatched, stopped,
                   queries, nObs, sinceStop, accepted, errors>>
    /\ UNCHANGED lineVars

\* notify_trigger_task.py 126-134: `files` is seeded with what os.walk lists
DirSeed(listing) ==
    /\ mode = "dir" /\ pc = "registered"
    /\ files' = IF params.use_existing_files THEN listing ELSE <<>>
    /\ accepted' = files'
    /\ polling_event_number' = 0
    /\ pc' = "loop"
    /\ UNCHANGED <<mode, params, mask, watch, dispatched, stopped, queries, nObs,
                   sinceStop, errors>>
    /\ UNCHANGED lineVars

\* notify_trigger_task.py 126-134: the backlog listing, any listing
DirListExisting ==
    /\ \E listing \in Listings : DirSeed(listing)
    /\ UNCHANGED fsVars

DirFinallyKeep == watch

\* notify_trigger_task.py 165-167: the finally clause
DirFinally == IF ~params.recursive THEN "released" ELSE watch

\* notify_trigger_task.py 136-167: one iteration of the event loop
DirIteration(e, ok) ==
    /\ mode = "dir" /\ pc = "loop"
    /\ nObs < MaxObs
    /\ nObs' = nObs + 1
    /\ sinceStop' = IF stopped THEN sinceStop + 1 ELSE sinceStop
    /\ LET n == polling_event_number + 1
           due == PollDue(n)
       IN /\ polling_event_number' = IF due THEN 0 ELSE n
          /\ queries' = IF due THEN queries + 1 ELSE queries
          /\ IF StopSeen(due)
             THEN \* break, then finally
                  /\ pc' = "stopped"
                  /\ watch' = DirFinally
                  /\ UNCHANGED <<files, dispatched, accepted, errors>>
             ELSE LET fs == AppendEvent(files, e)
                  IN /\ accepted' = IF Wanted(e) THEN Append(accepted, e.path)
                                     ELSE accepted
                     /\ IF DirThreshold(fs)
                        THEN IF ok
                             THEN /\ dispatched' = Append(dispatched,
                                            [items |-> DirBatch(fs), by |-> "loop"])
                                  /\ files' = DirAfterDispatch(fs)
                                  /\ pc' = "loop"
                                  /\ watch' = watch
                                  /\ errors' = errors
                             ELSE \* run_dag raises: finally, then the error propagates
                                  /\ dispatched' = dispatched
                                  /\ files' = fs
                                  /\ pc' = AfterRaise(pc)
                                  /\ watch' = DirFinally
                                  /\ errors' = errors + 1
                        ELSE /\ ok
                             /\ dispatched' = dispatched
                             /\ files' = fs
                             /\ pc' = "loop"
                             /\ watch' = watch
                             /\ errors' = errors
    /\ UNCHANGED <<mode, params, mask, stopped>>
    /\ UNCHANGED lineVars

\* notify_trigger_task.py 136: event_gen() yields e, any event or None
DirObserve(e, ok) ==
    /\ DirIteration(e, ok)
    /\ UNCHANGED fsVars

\* notify_trigger_task.py 136, 165-167: event_gen() raises
DirSourceFailure ==
    /\ mode = "dir" /\ pc = "loop"
    /\ pc' = "failed"
    /\ watch' = DirFinally
    /\ UNCHANGED fsVars
    /\ UNCHANGED <<mode, params, mask, files, polling_event_number, dispatched, stopped,
                   queries, nObs, sinceStop, accepted, errors>>
    /\ UNCHANGED lineVars

\* the workflow is asked to stop: signal.is_stopped() answers True from now on
Stop ==
    /\ pc \in {"registered", "open", "skip", "loop", "sleep"}
    /\ ~stopped
    /\ stopped' = TRUE
    /\ UNCHANGED fsVars
    /\ UNCHANGED <<mode, params, mask, pc, watch, files, polling_event_number, dispatched,
                   queries, nObs, sinceStop, accepted, errors>>
    /\ UNCHANGED lineVars

NextDir ==
    \/ DirStart
    \/ DirListExisting
    \/ \E e \in Events \cup {None}, ok \in BOOLEAN : DirObserve(e, ok)
    \/ DirSourceFailure
    \/ Stop

SpecDir == InitDir /\ [][NextDir]_vars

\* ------------------- directory mode run against a directory that is written to
\* The events of SpecDir are arbitrary; here they are the ones the kernel
\* queues for the files other processes create and close in the watched
\* directory, and os.walk lists the files that exist.

\* The orders os.walk can list the entries in.
Orderings(entries) ==
    {t \in [1..Len(entries) -> {entries[i] : i \in 1..Len(entries)}] :
        \A i, j \in 1..Len(entries) : t[i] = t[j] => i = j}

\* the kernel queues an event for a watch that exists
Queue(q, e) == IF watch = "open" THEN Append(q, e) ELSE q

\* another process creates the file p in the watched directory
FileCreated(p) ==
    /\ mode = "dir" /\ pc \in {"start", "registered", "loop"}
    /\ ~Contains(dir_entries, p)
    /\ dir_entries' = Append(dir_entries, p)
    /\ writers' = writers \cup {p}
    /\ inotify_queue' = Queue(inotify_queue, [cat |-> "create", isdir |-> FALSE, path |-> p])
    /\ UNCHANGED <<mode, params, mask, pc, watch, files, polling_event_number, dispatched,
                   stopped, queries, nObs, sinceStop, accepted, errors>>
    /\ UNCHANGED lineVars

\* the process that created p closes it
FileClosed(p) ==
    /\ mode = "dir" /\ pc \in {"start", "registered", "loop"}
    /\ p \in writers
    /\ writers' = writers \ {p}
    /\ inotify_queue' = Queue(inotify_queue,
                              [cat |-> "close_write", isdir |-> FALSE, path |-> p])
    /\ UNCHANGED <<mode, params, mask, pc, watch, files, polling_event_number, dispatched,
                   stopped, queries, nObs, sinceStop, accepted, errors, dir_entries>>
    /\ UNCHANGED lineVars

\* notify_trigger_task.py 126-134: os.walk lists the files that exist now
DirListDirectory ==
    /\ \E listing \in Orderings(dir_entries) : DirSeed(listing)
    /\ UNCHANGED fsVars

\* notify_trigger_task.py 136: event_gen() yields the oldest queued event, or
\* None after a timeout when nothing is queued
DirObserveQueue(ok) ==
    /\ IF inotify_queue = <<>>
       THEN DirIteration(None, ok) /\ inotify_queue' = inotify_queue
       ELSE DirIteration(Head(inotify_queue), ok) /\ inotify_queue' = Tail(inotify_queue)
    /\ UNCHANGED <<dir_entries, writers>>

NextDirFs ==
    \/ DirStart
    \/ DirListDirectory
    \/ \E ok \in BOOLEAN : DirObserveQueue(ok)
    \/ DirSourceFailure
    \/ Stop
    \/ \E p \in Paths : FileCreated(p)
    \/ \E p \in Paths : FileClosed(p)

SpecDirFs == InitDir /\ [][NextDirFs]_vars

\* ------------------------------------------------------ line mode: inputs
NL == "\n"
Chars == {"a", NL}

\* What one write() of the writer appends: part of a line, a terminator
\* (an empty line, or the end of the line begun before), a whole line.
Writes == {<<"a">>, <<NL>>, <<"a", NL>>}

RECURSIVE SeqsUpTo(_)
SeqsUpTo(n) ==
    IF n = 0 THEN {<<>>}
    ELSE LET shorter == SeqsUpTo(n - 1)
         IN shorter \cup {Append(s, c) : s \in {t \in shorter : Len(t) = n - 1},
                                         c \in Chars}

Unterminated(f) == f # <<>> /\ f[Len(f)] # NL

LineParams ==
    [path_abs : BOOLEAN, aggregate : 1..MaxAggregate, use_existing : BOOLEAN,
     flush_existing : BOOLEAN, stop_polling_rate : 1..MaxRate]

\* ----------------------------------------------------- line mode: the code
\* file.readline() at offset p: the offset after the call
LineEnd(f, p) ==
    IF \E i \in (p + 1)..Len(f) : f[i] = NL
    THEN CHOOSE i \in (p + 1)..Len(f) :
           f[i] = NL /\ \A j \in (p + 1)..(i - 1) : f[j] # NL
    ELSE Len(f)

\* file.readline() at offset p: the text returned ('' at the end of the file)
ReadLine(f, p) == SubSeq(f, p + 1, LineEnd(f, p))

\* file.readlines() from offset p
RECURSIVE ReadLinesFrom(_, _)
ReadLinesFrom(f, p) ==
    IF p >= Len(f) THEN <<>>
    ELSE <<ReadLine(f, p)>> \o ReadLinesFrom(f, LineEnd(f, p))

\* newline_trigger_task.py 99-100
ReadLines(f) == ReadLinesFrom(f, 0)

FlushDueAggregate(ls) == params.flush_existing /\ Len(ls) >= params.aggregate

\* newline_trigger_task.py 103
FlushDue(ls) == params.flush_existing /\ Len(ls) > 0

SkipCountShort == num_read_lines - 1

\* newline_trigger_task.py 121: the number of readline() calls of the skip loop
SkipCount == num_read_lines

LineThresholdStrict(ls) == Len(ls) > params.aggregate

\* newline_trigger_task.py 137
LineThreshold(ls) == Len(ls) >= params.aggregate

ChunksOnce(ls) == 1

\* newline_trigger_task.py 138
Chunks(ls) == Len(ls) \div params.aggregate

ChunkWhole(ls) == ls

\* newline_trigger_task.py 140
Chunk(ls) == SubSeq(ls, 1, params.aggregate)

DropChunkAll(ls) == SubSeq(ls, Len(ls) + 1, Len(ls))

\* newline_trigger_task.py 142
DropChunk(ls) == SubSeq(ls, params.aggregate + 1, Len(ls))

\* newline_trigger_task.py 139-142: n passes of the chunk loop, each run_dag
\* returning: the batches sent and the lines left
RECURSIVE SendChunks(_, _)
SendChunks(ls, n) ==
    IF n = 0 THEN [sent |-> <<>>, rest |-> ls]
    ELSE LET r == SendChunks(DropChunk(ls), n - 1)
         IN [sent |-> <<[items |-> Chunk(ls), by |-> "loop"]>> \o r.sent,
             rest |-> r.rest]

InitLine ==
    /\ mode = "line"
    /\ params \in LineParams
    /\ mask = 0
    /\ pc = "start"
    /\ watch = "none"
    /\ files = <<>>
    /\ lines = <<>>
    /\ polling_event_number = 0
    /\ dispatched = <<>>
    /\ stopped = FALSE
    /\ queries = 0
    /\ nObs = 0
    /\ sinceStop = 0
    /\ accepted = <<>>
    /\ file \in SeqsUpTo(MaxFile)
    /\ pos = 0
    /\ num_read_lines = 0
    /\ skipped = 0
    /\ torn = Unterminated(file)
    /\ errors = 0
    /\ seek_offset = 0
    /\ dir_entries = <<>>
    /\ writers = {}
    /\ inotify_queue = <<>>

\* newline_trigger_task.py 89-106: path check, backlog read, backlog flush
LineStart(ok) ==
    /\ mode = "line" /\ pc = "start"
    /\ IF ~PathOk
       THEN /\ ok
            /\ pc' = "patherror"
            /\ UNCHANGED <<lines, num_read_lines, dispatched, accepted, errors>>
       ELSE IF params.use_existing
       THEN LET ls == ReadLines(file)
            IN /\ num_read_lines' = Len(ls)
               /\ accepted' = ls
               /\ IF FlushDue(ls)
                  THEN IF ok
                       THEN /\ dispatched' = Append(dispatched,
                                               [items |-> ls, by |-> "flush"])
                            /\ lines' = <<>>
                            /\ pc' = "open"
                            /\ errors' = errors
                       ELSE \* run_dag raises
                            /\ dispatched' = dispatched
                            /\ lines' = ls
                            /\ pc' = AfterRaise(pc)
                            /\ errors' = errors + 1
                  ELSE /\ ok
                       /\ dispatched' = dispatched
                       /\ lines' = ls
                       /\ pc' = "open"
                       /\ errors' = errors
       ELSE /\ ok
            /\ pc' = "open"
            /\ UNCHANGED <<lines, num_read_lines, dispatched, accepted, errors>>
    /\ polling_event_number' = 0
    /\ UNCHANGED fsVars
    /\ UNCHANGED <<mode, params, mask, watch, files, stopped, queries, nObs, sinceStop,
                   file, pos, skipped, torn, seek_offset>>

SeekStart(f) == 0

\* newline_trigger_task.py 124: file.seek(0, 2)
SeekEnd(f) == Len(f)

\* newline_trigger_task.py 118-124: the live handle is opened; without
\* use_existing it is moved to the end of the file
LineOpen ==
    /\ mode = "line" /\ pc = "open"
    /\ watch' = "open"
    /\ skipped' = 0
    /\ IF params.use_existing
       THEN /\ pos' = 0
            /\ pc' = IF SkipCount <= 0 THEN "loop" ELSE "skip"
            /\ seek_offset' = seek_offset
       ELSE /\ pos' = SeekEnd(file)
            /\ pc' = "loop"
            /\ seek_offset' = Len(file)
    /\ UNCHANGED fsVars
    /\ UNCHANGED <<mode, params, mask, files, lines, polling_event_number, dispatched,
                   stopped, queries, nObs, sinceStop, accepted, file,
                   num_read_lines, torn, errors>>

\* newline_trigger_task.py 121-122: one readline() of the skip loop
LineSkip ==
    /\ mode = "line" /\ pc = "skip"
    /\ pos' = LineEnd(file, pos)
    /\ skipped' = skipped + 1
    /\ pc' = IF skipped + 1 >= SkipCount THEN "loop" ELSE "skip"
    /\ UNCHANGED fsVars
    /\ UNCHANGED <<mode, params, mask, watch, files, lines, polling_event_number,
                   dispatched, stopped, queries, nObs, sinceStop, accepted, file,
                   num_read_lines, torn, errors, seek_offset>>

\* newline_trigger_task.py 110-116, 126-144: watch_file yields a line and the
\* loop body runs; nOk is the number of run_dag calls that return
LineRead(nOk) ==
    /\ mode = "line" /\ pc = "loop"
    /\ pos < Len(file)
    /\ pos' = LineEnd(file, pos)
    /\ nObs' = nObs + 1
    /\ sinceStop' = IF stopped THEN sinceStop + 1 ELSE sinceStop
    /\ accepted' = Append(accepted, ReadLine(file, pos))
    /\ LET ls == Append(lines, ReadLine(file, pos))
           n == polling_event_number + 1
           due == PollDue(n)
       IN /\ polling_event_number' = IF due THEN 0 ELSE n
          /\ queries' = IF due THEN queries + 1 ELSE queries
          /\ IF StopSeen(due)
             THEN \* break, then finally
                  /\ nOk = 0
                  /\ lines' = ls
                  /\ dispatched' = dispatched
                  /\ pc' = "stopped"
                  /\ watch' = "released"
                  /\ errors' = errors
             ELSE IF LineThreshold(ls)
             THEN /\ nOk \in 0..Chunks(ls)
                  /\ dispatched' = dispatched \o SendChunks(ls, nOk).sent
                  /\ lines' = SendChunks(ls, nOk).rest
                  /\ IF nOk = Chunks(ls)
                     THEN pc' = "loop" /\ watch' = watch /\ errors' = errors
                     ELSE /\ pc' = AfterRaise(pc)
                          /\ watch' = "released"
                          /\ errors' = errors + 1
             ELSE /\ nOk = 0
                  /\ lines' = ls
                  /\ dispatched' = dispatched
                  /\ pc' = "loop"
                  /\ watch' = watch
                  /\ errors' = errors
    /\ UNCHANGED fsVars
    /\ UNCHANGED <<mode, params, mask, files, stopped, file, num_read_lines, skipped,
                   torn, seek_offset>>

\* newline_trigger_task.py 112-116: readline() returns '', watch_file sleeps
LineSleep ==
    /\ mode = "line" /\ pc = "loop"
    /\ ReadLine(file, pos) = <<>>
    /\ pc' = "sleep"
    /\ UNCHANGED fsVars
    /\ UNCHANGED <<mode, params, mask, watch, files, polling_event_number, dispatched,
                   stopped, queries, nObs, sinceStop, accepted, errors>>
    /\ UNCHANGED lineVars

\* newline_trigger_task.py 116, 111: the sleep ends, readline() is tried again
LineWake ==
    /\ mode = "line" /\ pc = "sleep"
    /\ pc' = "loop"
    /\ UNCHANGED fsVars
    /\ UNCHANGED <<mode, params, mask, watch, files, polling_event_number, dispatched,
                   stopped, queries, nObs, sinceStop, accepted, errors>>
    /\ UNCHANGED lineVars

\* newline_trigger_task.py 119-144: readline() raises inside the try
LineSourceFailure ==
    /\ mode = "line" /\ pc \in {"skip", "loop"}
    /\ pc' = "failed"
    /\ watch' = "released"
    /\ UNCHANGED fsVars
    /\ UNCHANGED <<mode, params, mask, files, polling_event_number, dispatched, stopped,
                   queries, nObs, sinceStop, accepted, errors>>
    /\ UNCHANGED lineVars

\* another process appends to the watched file
Write(w) ==
    /\ mode = "line" /\ pc \in {"open", "skip", "loop", "sleep"}
    /\ Len(file) + Len(w) <= MaxFile
    /\ file' = file \o w
    /\ torn' = (torn \/ Unterminated(file \o w))
    /\ UNCHANGED fsVars
    /\ UNCHANGED <<mode, params, mask, pc, watch, files, lines, polling_event_number,
                   dispatched, stopped, queries, nObs, sinceStop, accepted, pos,
                   num_read_lines, skipped, errors, seek_offset>>

NextLine ==
    \/ \E ok \in BOOLEAN : LineStart(ok)
    \/ LineOpen
    \/ LineSkip
    \/ \E nOk \in 0..MaxFile : LineRead(nOk)
    \/ LineSleep
    \/ LineWake
    \/ LineSourceFailure
    \/ \E w \in Writes : Write(w)
    \/ Stop

SpecLine == InitLine /\ [][NextLine]_vars

\* The interpreter keeps running run(): each step of the task that can be taken
\* is taken eventually. Nothing is assumed of the writer, of the workflow's stop
\* request, or of failures.
LineFairness ==
    /\ WF_vars(\E ok \in BOOLEAN : LineStart(ok))
    /\ WF_vars(LineOpen)
    /\ WF_vars(LineSkip)
    /\ WF_vars(\E nOk \in 0..MaxFile : LineRead(nOk))
    /\ WF_vars(LineSleep)
    /\ WF_vars(LineWake)

SpecLineFair == InitLine /\ [][NextLine]_vars /\ LineFairness

Init == InitDir \/ InitLine

Next == NextDir \/ NextLine

Spec == Init /\ [][Next]_vars

\* ------------------------------------------------------------- properties
Count(s, x) == Cardinality({i \in 1..Len(s) : s[i] = x})

NoRepeat(s) == \A i, j \in 1..Len(s) : s[i] = s[j] => i = j

Last(s) == s[Len(s)]

LoopDispatches == SelectSeq(dispatched, LAMBDA d : d.by = "loop")

FlushDispatches == SelectSeq(dispatched, LAMBDA d : d.by = "flush")

\* the run_dag calls made by the step
NewDispatches == SubSeq(dispatched', Len(dispatched) + 1, Len(dispatched'))

\* the loop is between two iterations
Waiting == pc \in {"loop", "sleep"}

\* line mode: the lines that were put in the buffer (seeded or read live)
Buffered ==
    nObs + (IF params.use_existing /\ ~(params.flush_existing /\ num_read_lines > 0)
            THEN num_read_lines ELSE 0)

\* C1: directory mode without backlog, without dedup drops and not cancelled:
\* the j-th dispatch carries the accepted items (j-1)*k+1 .. j*k in arrival
\* order, and there are floor(n/k) dispatches after n accepted items.
C1_BatchesOfK ==
    (/\ mode = "dir" /\ pc = "loop"
     /\ ~params.use_existing_files
     /\ ~params.skip_duplicate \/ NoRepeat(accepted))
    => /\ Len(dispatched) = Len(accepted) \div params.aggregate
       /\ \A j \in 1..Len(dispatched) :
            dispatched[j].items =
              SubSeq(accepted, (j - 1) * params.aggregate + 1, j * params.aggregate)

C1_Witness ==
    /\ mode = "dir" /\ pc = "loop"
    /\ ~params.use_existing_files /\ ~params.skip_duplicate
    /\ params.aggregate = 2
    /\ Len(dispatched) = 2
    /\ dispatched[1].items # dispatched[2].items

\* C2 as stated: line mode, not cancelled: after the iteration for the n-th
\* line read by the loop, the total number of dispatches is floor(n/k).
C2_Original ==
    (mode = "line" /\ Waiting /\ nObs >= 1)
    => Len(dispatched) = nObs \div params.aggregate

\* C2 amended: the dispatches made by the live loop (the backlog flush apart)
\* number floor(n/k), n counting every line put in the buffer: the backlog
\* lines seeded without flush and the lines read live.
C2_LoopDispatches ==
    (mode = "line" /\ Waiting /\ nObs >= 1)
    => Len(LoopDispatches) = Buffered \div params.aggregate

C2_Witness ==
    /\ mode = "line" /\ Waiting
    /\ params.aggregate = 2
    /\ params.use_existing /\ ~params.flush_existing /\ num_read_lines = 1
    /\ nObs = 3
    /\ Len(dispatched) = 2

\* C3: directory mode: a dispatch hands over the whole buffer as one batch and
\* leaves the buffer empty; an iteration makes exactly one dispatch when the
\* buffer has reached aggregate, whatever its length, and none otherwise.
C3_WholeBuffer ==
    [][(mode = "dir" /\ nObs' = nObs + 1 /\ pc' = "loop")
       => IF dispatched' # dispatched
          THEN /\ Len(NewDispatches) = 1
               /\ files' = <<>>
               /\ Len(Last(dispatched').items) >= params.aggregate
               /\ Len(Last(dispatched').items) >= Len(files)
               /\ Len(Last(dispatched').items) <= Len(files) + 1
               /\ SubSeq(Last(dispatched').items, 1, Len(files)) = files
          ELSE /\ Len(files') < params.aggregate
               /\ Len(files) < params.aggregate]_vars

C3_Witness ==
    /\ mode = "dir" /\ pc = "loop"
    /\ params.use_existing_files
    /\ files = <<>>
    /\ Len(dispatched) = 1
    /\ Len(dispatched[1].items) > params.aggregate

\* C4: line mode: the live loop dispatches the first `aggregate` lines of the
\* buffer, in order, and removes exactly those; a buffer of 2*aggregate or more
\* lines goes out in several batches of exactly `aggregate` lines within the one
\* iteration, which ends with fewer than `aggregate` lines buffered.
C4_FifoChunks ==
    [][(mode = "line" /\ nObs' = nObs + 1 /\ pc' # "stopped")
       => /\ \A i \in 1..Len(NewDispatches) :
               /\ NewDispatches[i].by = "loop"
               /\ Len(NewDispatches[i].items) = params.aggregate
          /\ Flatten(NewDispatches) \o lines' = Append(lines, Last(accepted'))
          /\ pc' = "loop" => Len(lines') < params.aggregate]_vars

C4_Witness ==
    /\ mode = "line" /\ pc = "loop"
    /\ params.aggregate = 2
    /\ num_read_lines >= 2 * params.aggregate - 1
    /\ nObs = 1
    /\ Len(LoopDispatches) = 2
    /\ lines = <<>>

Buffer == IF mode = "dir" THEN files ELSE lines

\* C5 as stated: in both modes the buffer never holds `aggregate` or more items
\* while the loop waits for the next event, a backlog-seeded buffer included.
C5_Original == Waiting => Len(Buffer) < params.aggregate

\* the batch the iteration worked on: what it dispatched, else what it left
Worked == IF dispatched' # dispatched THEN Last(dispatched').items ELSE files'

\* C6: directory mode: when a path that is in the buffer once is accepted again
\* before a dispatch, the buffer then holds it once with skip_duplicate and
\* twice without.
C6_Dedup ==
    [][(/\ mode = "dir" /\ nObs' = nObs + 1 /\ pc' = "loop"
        /\ accepted' # accepted
        /\ Count(files, Last(accepted')) = 1)
       => Count(Worked, Last(accepted')) = IF params.skip_duplicate THEN 1 ELSE 2]_vars

C6_Witness ==
    /\ mode = "dir" /\ pc = "loop"
    /\ params.skip_duplicate /\ params.use_existing_files
    /\ dispatched = <<>>
    /\ accepted = <<"A", "A">>
    /\ files = <<"A">>

Range(s) == {s[i] : i \in 1..Len(s)}

\* C7: directory mode: an event is taken iff its category is enabled and it is
\* not a directory event: what was dispatched and what is buffered are exactly
\* the backlog paths and the paths of such events, in order (without
\* skip_duplicate), and never any other path (with it).
C7_MaskFilter ==
    mode = "dir"
    => /\ ~params.skip_duplicate => Flatten(dispatched) \o files = accepted
       /\ Range(Flatten(dispatched) \o files) \subseteq Range(accepted)
       /\ Len(Flatten(dispatched) \o files) <= Len(accepted)

C7_Witness ==
    /\ mode = "dir" /\ pc = "loop"
    /\ ~params.use_existing_files /\ ~params.skip_duplicate
    /\ params.on_file_move /\ ~params.on_file_close
    /\ nObs = 3
    /\ Len(accepted) = 2
    /\ Len(Flatten(dispatched) \o files) = 2

RECURSIVE Concat(_)
Concat(ls) == IF ls = <<>> THEN <<>> ELSE Head(ls) \o Concat(Tail(ls))

\* the live loop has been entered
Live == pc \in {"loop", "sleep", "stopped"}

\* C8: line mode with use_existing and flush_existing: m > 0 lines in the file
\* at the start go out in one dispatch, first of all and whatever aggregate is,
\* in file order; the buffer is empty then, and the live loop starts reading
\* right after line m. With m = 0 there is no flush dispatch.
C8_BacklogFlush ==
    (/\ mode = "line" /\ params.use_existing /\ params.flush_existing
     /\ pc \in {"open", "skip", "loop", "sleep", "stopped"})
    => IF num_read_lines > 0
       THEN /\ Len(FlushDispatches) = 1
            /\ dispatched[1].by = "flush"
            /\ Len(dispatched[1].items) = num_read_lines
            /\ \A i \in 1..num_read_lines : dispatched[1].items[i] # <<>>
            /\ Concat(dispatched[1].items)
                 = SubSeq(file, 1, Len(Concat(dispatched[1].items)))
            /\ pc = "open" => lines = <<>> /\ Len(dispatched) = 1
            /\ (pc = "loop" /\ nObs = 0 /\ ~torn)
                 => pos = Len(Concat(dispatched[1].items))
       ELSE /\ FlushDispatches = <<>>
            /\ (pc = "loop" /\ nObs = 0) => pos = 0

C8_Witness ==
    /\ mode = "line" /\ pc = "loop"
    /\ params.use_existing /\ params.flush_existing
    /\ params.aggregate = 2
    /\ num_read_lines = 3
    /\ nObs = 1
    /\ ~torn
    /\ Len(dispatched) = 1
    /\ Len(lines) = 1

\* C9: line mode with use_existing and a writer appending whole lines at any
\* moment: the lines flushed, dispatched and buffered are, in order, exactly
\* the lines of the file up to the read position: none twice, none skipped.
C9_EveryLineOnce ==
    (mode = "line" /\ params.use_existing /\ ~torn /\ Live)
    => Flatten(dispatched) \o lines = ReadLines(SubSeq(file, 1, pos))

C9_Witness ==
    /\ mode = "line" /\ pc = "loop"
    /\ params.use_existing /\ ~torn
    /\ num_read_lines = 2
    /\ nObs = 2
    /\ Len(Flatten(dispatched) \o lines) = 4

\* C10 as stated: once the stop predicate is true, the loop observes no more
\* than stop_polling_rate events before it terminates.
C10_Original == sinceStop <= params.stop_polling_rate

\* C11: both modes: once a query of the stop predicate has answered true, no
\* dispatch is made any more, even with `aggregate` or more items buffered:
\* the step that gets the answer ends the loop without a dispatch, and nothing
\* is dispatched after it.
C11_NoDispatchAfterStop ==
    [][/\ (queries' = queries + 1 /\ stopped)
          => (pc' = "stopped" /\ dispatched' = dispatched)
       /\ pc = "stopped" => (pc' = "stopped" /\ dispatched' = dispatched)]_vars

C11_Witness ==
    /\ pc = "stopped"
    /\ mode = "line"
    /\ Len(lines) >= params.aggregate
    /\ lines # <<>>

\* run() has returned or raised
Terminated == pc \in {"stopped", "failed", "patherror"}

\* C12 as stated: once the stop predicate is true (it stays true), the session
\* eventually terminates, also when no further line is appended.
C12_Original == stopped ~> Terminated

\* C13: a session that opened its watch resource and ended, for whatever reason
\* (stop seen, run_dag raising, the event source or readline raising), has
\* released it: the file handle of line mode is closed, the watch registration
\* of a non-recursive directory watch is removed.
C13_Released ==
    (Terminated /\ watch # "none" /\ (mode = "line" \/ ~params.recursive))
    => watch = "released"

C13_Witness ==
    /\ mode = "dir" /\ ~params.recursive
    /\ pc = "failed" /\ errors = 1
    /\ watch = "released"

\* C14: a path that is not absolute ends run() with the path error before
\* anything else: no watch resource, no backlog, no dispatch, no stop query.
C14_PathError ==
    /\ ~params.path_abs => pc \in {"start", "patherror"}
    /\ pc = "patherror"
       => /\ ~params.path_abs
          /\ watch = "none"
          /\ files = <<>> /\ lines = <<>> /\ num_read_lines = 0
          /\ dispatched = <<>> /\ errors = 0
          /\ queries = 0 /\ nObs = 0

C14_Witness ==
    /\ pc = "patherror"
    /\ mode = "line"
    /\ params.use_existing /\ params.flush_existing
    /\ Len(file) >= 2

\* C15: a run_dag call that raises is not retried: run() ends with the error,
\* and after it no event or line is consumed and no dispatch is made; so for
\* the dispatches of both loops and for the backlog flush of line mode.
C15_NoRetry ==
    [][/\ errors' >= 1 => (pc' = "failed" /\ errors' = 1)
       /\ errors >= 1 => UNCHANGED <<pc, dispatched, nObs, pos, files, lines>>]_vars

C15_Witness ==
    /\ mode = "line" /\ pc = "failed" /\ errors = 1
    /\ Len(LoopDispatches) >= 1
    /\ Len(lines) >= params.aggregate

\* s can be got from t by leaving items out, the order kept
RECURSIVE IsSubseq(_, _)
IsSubseq(s, t) ==
    IF s = <<>> THEN TRUE
    ELSE IF t = <<>> THEN FALSE
    ELSE IF Head(s) = Head(t) THEN IsSubseq(Tail(s), Tail(t))
    ELSE IsSubseq(s, Tail(t))

\* all that was handed over, then what is buffered
Delivered == Flatten(dispatched) \o Buffer

\* C16 as stated: in every state the dispatched batches followed by the buffer
\* are the accepted items (backlog, then live items) in the order of acceptance.
C16_Original == Delivered = accepted

\* C16 amended: they are the accepted items in the order of acceptance, less
\* the items skip_duplicate dropped in directory mode: equal to the accepted
\* sequence in line mode and without skip_duplicate, a subsequence of it (order
\* kept) with skip_duplicate.
C16_OrderPreserved ==
    /\ (mode = "line" \/ ~params.skip_duplicate) => Delivered = accepted
    /\ IsSubseq(Delivered, accepted)

C16_Witness ==
    /\ mode = "dir" /\ params.skip_duplicate
    /\ Len(dispatched) = 2
    /\ Len(accepted) > Len(Delivered)
    /\ files # <<>>

\* C17 as stated: line mode, the buffer is empty after every dispatch (taken
\* at the end of an iteration whose run_dag calls all returned).
C17_Original ==
    [][(mode = "line" /\ dispatched' # dispatched /\ errors' = errors)
         => lines' = <<>>]_vars

\* C17 amended: line mode. The backlog flush leaves the buffer empty. A
\* dispatch of the live loop leaves it empty whenever fewer than aggregate
\* lines were buffered before the line of that iteration was read. aggregate
\* or more lines are buffered before a read only in the first iteration after
\* a backlog of that size was seeded without flush; that iteration takes
\* aggregate lines per dispatch and leaves the rest in the buffer.
C17_EmptyAfterDispatch ==
    [][(mode = "line" /\ dispatched' # dispatched) =>
         /\ Last(dispatched').by = "flush" => lines' = <<>>
         /\ (Last(dispatched').by = "loop" /\ Len(lines) < params.aggregate)
              => (Len(NewDispatches) = 1 /\ lines' = <<>>)
         /\ Len(lines) >= params.aggregate
              => /\ nObs = 0
                 /\ params.use_existing /\ ~params.flush_existing
                 /\ Len(lines) = num_read_lines
                 /\ Len(lines') = Len(lines) + 1
                                    - params.aggregate * Len(NewDispatches)]_vars

C17_Witness ==
    /\ mode = "line" /\ params.aggregate = 2
    /\ params.use_existing /\ ~params.flush_existing
    /\ num_read_lines = 2 /\ nObs = 1 /\ errors = 0
    /\ Len(dispatched) = 1 /\ Len(lines) = 1

C19_DedupWindow ==
    [][/\ (/\ mode = "dir" /\ params.skip_duplicate
           /\ nObs' = nObs + 1 /\ pc' # "stopped"
           /\ accepted' # accepted
           /\ ~Contains(files, Last(accepted')))
          => Worked = Append(files, Last(accepted'))
       /\ (mode = "line" /\ nObs' = nObs + 1)
          => Flatten(NewDispatches) \o lines' = Append(lines, ReadLine(file, pos))]_vars

C19_Witness ==
    /\ mode = "dir" /\ params.skip_duplicate /\ ~params.use_existing_files
    /\ Len(dispatched) = 2
    /\ \E p \in Paths : /\ Contains(dispatched[1].items, p)
                        /\ Contains(dispatched[2].items, p)

\* C20: line mode with use_existing = FALSE: reading starts at the end of the
\* file as it is when the watch opens: whatever flush_existing is, the lines
\* dispatched and buffered are exactly the text between that end and the read
\* position, so nothing present at the opening is among them, and the first
\* item accepted starts at that end; it is the whole first line appended after
\* the opening when every write ended with a newline.
C20_StartAtEnd ==
    (mode = "line" /\ ~params.use_existing /\ watch # "none") =>
        /\ seek_offset <= pos
        /\ Concat(Flatten(dispatched) \o lines) = SubSeq(file, seek_offset + 1, pos)
        /\ accepted # <<>> =>
             /\ accepted[1] = SubSeq(file, seek_offset + 1,
                                     seek_offset + Len(accepted[1]))
             /\ ~torn => accepted[1] = ReadLine(file, seek_offset)
        /\ num_read_lines = 0 /\ FlushDispatches = <<>>

C20_Witness ==
    /\ mode = "line" /\ ~params.use_existing /\ params.flush_existing
    /\ ~torn /\ seek_offset >= 2 /\ pos > seek_offset
    /\ Len(dispatched) >= 1

\* C21: both modes: every occurrence of an accepted item (a backlog entry, an
\* accepted live event, a line read) is in at most one dispatched batch: a
\* value is in the batches and the buffer together no more often than it was
\* accepted, so the items of a batch that was sent are out of the buffer and
\* come again only when the value is accepted again.
C21_AtMostOnce ==
    /\ \A v \in Range(accepted) \cup Range(Delivered) :
          Count(Flatten(dispatched), v) + Count(Buffer, v) <= Count(accepted, v)
    /\ Len(Flatten(dispatched)) + Len(Buffer) <= Len(accepted)

C21_Witness ==
    /\ mode = "line" /\ params.use_existing /\ ~params.flush_existing
    /\ Len(dispatched) = 2
    /\ \E v \in Range(accepted) :
          /\ Count(accepted, v) = 2
          /\ Contains(dispatched[1].items, v)
          /\ Contains(dispatched[2].items, v)

\* C22: directory mode with skip_duplicate, the backlog listing holding each
\* path once: in every state no path is in the buffer twice, and no batch that
\* was dispatched holds a path twice.
C22_NoRepeatInBuffer ==
    (mode = "dir" /\ params.skip_duplicate) =>
        /\ NoRepeat(files)
        /\ \A i \in 1..Len(dispatched) : NoRepeat(dispatched[i].items)

C22_Witness ==
    /\ mode = "dir" /\ params.skip_duplicate /\ params.use_existing_files
    /\ accepted = <<"B", "A", "A">>
    /\ Len(dispatched) = 1
    /\ dispatched[1].items = <<"B", "A">>

\* C23: a session ended by cancellation leaves its buffer undispatched: the
\* iteration that detects the stop dispatches nothing; in directory mode it
\* does not append its event and fewer than aggregate paths are left; in line
\* mode it appends its line first, at most aggregate lines are left, and the
\* last of them is that line.
C23_StopLeftover ==
    /\ [](pc = "stopped" =>
            /\ mode = "dir" => Len(files) < params.aggregate
            /\ mode = "line" => /\ Len(lines) <= params.aggregate
                                /\ lines # <<>>
                                /\ Last(lines) = Last(accepted))
    /\ [][(pc # "stopped" /\ pc' = "stopped") =>
            /\ dispatched' = dispatched
            /\ mode = "dir" => (files' = files /\ accepted' = accepted)
            /\ mode = "line" => lines' = Append(lines, ReadLine(file, pos))]_vars

C23_Witness ==
    /\ pc = "stopped" /\ mode = "line"
    /\ params.aggregate = 2 /\ Len(lines) = 2
    /\ Len(dispatched) = 1 /\ torn = FALSE

\* a file of the directory is not missed: it was seeded or taken from an event,
\* or an event of an enabled category for it is queued, or its close is still
\* to come
NotMissed(p) ==
    \/ Contains(accepted, p)
    \/ \E i \in 1..Len(inotify_queue) :
          inotify_queue[i].path = p /\ Wanted(inotify_queue[i])
    \/ p \in writers /\ ~params.on_file_create /\ params.on_file_close

\* C24: directory mode with use_existing_files and creation or close events
\* enabled, files being created and closed by other processes at any time
\* from the start on: the watch exists before the listing is made, so while
\* the loop runs every file of the directory was seeded by the listing or is
\* reported by a live event of an enabled category; a file both listed and
\* reported is in the buffer twice without skip_duplicate, never with it.
C24_NoGap ==
    (/\ mode = "dir" /\ pc = "loop" /\ params.use_existing_files
     /\ (params.on_file_create \/ params.on_file_close))
    => /\ \A i \in 1..Len(dir_entries) : NotMissed(dir_entries[i])
       /\ params.skip_duplicate => NoRepeat(files)

C24_Witness ==
    /\ mode = "dir" /\ pc = "loop" /\ params.use_existing_files
    /\ ~params.skip_duplicate /\ params.on_file_close /\ ~params.on_file_create
    /\ dir_entries = <<"A">> /\ writers = {}
    /\ Len(dispatched) = 1 /\ dispatched[1].items = <<"A", "A">>
    /\ files = <<>> /\ inotify_queue = <<>>

\* C25 as stated: line mode: every item the line source gives (a line of the
\* backlog or a line read live) is one complete line, ending with its line
\* terminator; a line written in two parts is never given as two items.
C25_Original ==
    mode = "line" =>
        \A i \in 1..Len(accepted) :
            accepted[i] # <<>> /\ Last(accepted[i]) = NL

====
